---- MODULE Spec2Model ----
(***************************************************************************)
(* A model of bongo's grammar core: the grammar container and its          *)
(* validation (src/bongo/src/grammar.rs), the borrowed views RuleRef and   *)
(* ProdRef with their comparison wrappers (same file), and the nullable    *)
(* engine (src/bongo/src/grammar/nullables.rs).                            *)
(***************************************************************************)
EXTENDS Integers, Sequences, FiniteSets, TLC

(***************************************************************************)
(* Bounds of the inputs a run builds.                                      *)
(***************************************************************************)
\* Validation runs: rules + productions + right-hand-side elements supplied
\* to Grammar::new.
MaxSize == 6
\* Nullable runs: productions + right-hand-side elements of the grammar
\* handed to calculate_nullables.
NullSize == 5
\* Comparison runs: rules + productions + right-hand-side elements of the
\* grammar whose views are compared.
CmpSize == 4

\* Productions plus right-hand-side elements of the rules of a binding run.
BindSize == 5

\* Productions plus right-hand-side elements of the rules of a halting run.
HaltSize == 4

VARIABLES
  start,           \* Grammar::new argument: the start nonterminal
  rules,           \* Grammar::new argument: the rules, in the order supplied
  action_map,      \* Grammar::new argument: the keys of the action map
  pc,              \* where the run is
  result,          \* what Grammar::new returned
  ret,             \* what the last call on the grammar or its views returned
  nullable_nts,    \* inner_calculate_nullables: nonterminal -> nullable prods
  changed,         \* inner_calculate_nullables: the sweep's changed flag
  todo,            \* what the current sweep (pass 1 or pass 2) has yet to visit
  sweeps,          \* sweeps of pass 1 and of pass 2 started so far
  remaining,       \* calculate_nullables: remaining_nullables
  nullable_infos,  \* calculate_nullables: nullable_infos
  outcome          \* what calculate_nullables returned

vars == <<start, rules, action_map, pc, result, ret, nullable_nts, changed,
          todo, sweeps, remaining, nullable_infos, outcome>>

(***************************************************************************)
(* The symbol family (ElementTypes, grammar.rs:46-81).                     *)
(***************************************************************************)
NonTerms == {"S", "A", "B"}
Terms == {"t"}
Names == {"x"}
None == "None"
Keys == {1, 2}

\* enum Element { Term(E::Term), NonTerm(E::NonTerm) }
Term(t) == [tag |-> "Term", val |-> t]
NonTerm(nt) == [tag |-> "NonTerm", val |-> nt]
Element == {Term(t) : t \in Terms} \cup {NonTerm(nt) : nt \in NonTerms}

\* struct ProductionElement { identifier: Option<Name>, element: Element }
ProductionElement(ids) == [identifier : ids, element : Element]

\* struct Production { action_key, elements }
Production(action_key, elements) ==
  [action_key |-> action_key, elements |-> elements]

\* struct Rule { head, prods }
Rule(head, prods) == [head |-> head, prods |-> prods]

\* Production::elements_iter: the elements without their binding names.
elements_iter(prod) == {prod.elements[i].element : i \in DOMAIN prod.elements}

\* Element::as_nonterm over a set of elements (filter_map).
as_nonterm(elems) == {e.val : e \in {x \in elems : x.tag = "NonTerm"}}

(***************************************************************************)
(* Grammar::new and the validation (grammar.rs:359-518).                   *)
(***************************************************************************)
\* rule_set.into_iter().map(|r| (r.head().clone(), r)).collect(): a BTreeMap
\* built by inserting the pairs in the order supplied, so a later rule with
\* the same head replaces the earlier one.
EmptyMap == [h \in {} |-> None]

RECURSIVE collect(_, _)
collect(rs, map) ==
  IF rs = <<>> THEN map
  ELSE LET r == Head(rs)
       IN collect(Tail(rs),
                  [h \in DOMAIN map \cup {r.head} |->
                     IF h = r.head THEN r ELSE map[h]])

\* Grammar::get_elements: every element of every production of the rule set.
get_elements(g) ==
  UNION {UNION {elements_iter(g.rule_set[h].prods[i]) :
                  i \in DOMAIN g.rule_set[h].prods} : h \in DOMAIN g.rule_set}

\* Grammar::get_nonterminals
get_nonterminals(g) == as_nonterm(get_elements(g))

\* Grammar::nonterminals_without_rules
nonterminals_without_rules(g) ==
  {nt \in get_nonterminals(g) : nt \notin DOMAIN g.rule_set}

\* Grammar::rules_without_prods: the head field of every rule with no
\* production.
rules_without_prods(g) ==
  {g.rule_set[h].head : h \in {k \in DOMAIN g.rule_set :
                                 g.rule_set[k].prods = <<>>}}

\* The successor function handed to the search by reachable_nonterms: the
\* nonterminals of the right-hand sides of nt's rule, none without a rule.
next_nonterms(g, nt) ==
  IF nt \in DOMAIN g.rule_set
  THEN as_nonterm(UNION {elements_iter(g.rule_set[nt].prods[i]) :
                           i \in DOMAIN g.rule_set[nt].prods})
  ELSE {}

\* utils::breadth_first_search: the nodes reached from the initial ones.
RECURSIVE breadth_first_search(_, _, _)
breadth_first_search(g, seen, frontier) ==
  IF frontier = {} THEN seen
  ELSE LET found == UNION {next_nonterms(g, nt) : nt \in frontier}
       IN breadth_first_search(g, seen \cup frontier,
                               found \ (seen \cup frontier))

\* Grammar::reachable_nonterms
reachable_nonterms(g) == breadth_first_search(g, {}, {g.start_symbol})

\* Grammar::unreachable_nonterms: of the nonterminals of the right-hand sides,
\* those the search does not reach.
unreachable_nonterms(g) ==
  {nt \in get_nonterminals(g) : nt \notin reachable_nonterms(g)}

\* Grammar::check_grammar builds the three error sets.
check_grammar(g) ==
  [unreachable_nonterms |-> unreachable_nonterms(g),
   nonterms_without_rules |-> nonterminals_without_rules(g),
   rules_without_prods |-> rules_without_prods(g)]

\* into_result with the test of rules_without_prods left out.
into_result_lax(errs) ==
  /\ errs.unreachable_nonterms = {}
  /\ errs.nonterms_without_rules = {}

\* GrammarErrors::into_result
into_result(errs) ==
  /\ errs.unreachable_nonterms = {}
  /\ errs.nonterms_without_rules = {}
  /\ errs.rules_without_prods = {}

\* Grammar::new
GrammarNew(st, rs, actions) ==
  LET g == [start_symbol |-> st,
            rule_set |-> collect(rs, EmptyMap),
            action_map |-> actions]
      errs == check_grammar(g)
  IN IF into_result(errs)
     THEN [tag |-> "Ok", grammar |-> g]
     ELSE [tag |-> "Err", errors |-> errs]

(***************************************************************************)
(* Grammar::get_action_map (grammar.rs:388-411).                           *)
(***************************************************************************)
\* The order of E::NonTerm, in which a BTreeMap keyed by nonterminals iterates.
NonTermOrder == <<"A", "B", "S">>
Rank(nt) == CHOOSE i \in DOMAIN NonTermOrder : NonTermOrder[i] = nt

\* The keys of the rule set in iteration order.
RuleHeads(g) ==
  LET InRuleSet(nt) == nt \in DOMAIN g.rule_set
  IN SelectSeq(NonTermOrder, InRuleSet)

\* struct ProdKey { head, action_key }
ProdKey(h, k) == [head |-> h, action_key |-> k]

\* struct ProdAndHead { head, prod }
ProdAndHead(h, prod) == [head |-> h, prod |-> prod]

Insert(map, k, v) == [x \in DOMAIN map \cup {k} |-> IF x = k THEN v ELSE map[x]]

\* The two loops of get_action_map over the rules listed in hs, from the i-th
\* production of the first of them: an occupied entry panics, a vacant one
\* is filled.
RECURSIVE action_map_loop(_, _, _, _)
action_map_loop(g, hs, i, map) ==
  IF hs = <<>> THEN [panicked |-> FALSE, map |-> map]
  ELSE LET nt_head == Head(hs)
           prods == g.rule_set[nt_head].prods
       IN IF i > Len(prods) THEN action_map_loop(g, Tail(hs), 1, map)
          ELSE LET key == ProdKey(nt_head, prods[i].action_key)
               IN IF key \in DOMAIN map
                  THEN [panicked |-> TRUE, map |-> map]
                  ELSE action_map_loop(g, hs, i + 1,
                         Insert(map, key, ProdAndHead(nt_head, prods[i])))

get_action_map(g) == action_map_loop(g, RuleHeads(g), 1, EmptyMap)

(***************************************************************************)
(* The borrowed views and their comparisons (grammar.rs:541-717).  A       *)
(* grammar instance is named by its address; a view holds that address.    *)
(***************************************************************************)
\* struct RuleRef { grammar, head, prods }: a view of rule h of the grammar g
\* that lives at address inst.
RuleRef(inst, g, h) ==
  [grammar |-> inst, head |-> h, prods |-> g.rule_set[h].prods]

\* RuleRef::prods: one ProdRef per production, its action value looked up in
\* the action map with unwrap(), which panics on a key without an entry.
\* The production is held by address: instance, rule, index.
RuleRefProds(g, rr) ==
  IF \E i \in DOMAIN rr.prods : rr.prods[i].action_key \notin g.action_map
  THEN [panicked |-> TRUE, views |-> <<>>]
  ELSE [panicked |-> FALSE,
        views |-> [i \in DOMAIN rr.prods |->
                     [grammar |-> rr.grammar,
                      head |-> rr.head,
                      prod |-> <<rr.grammar, Rank(rr.head), i>>,
                      action_value |-> rr.prods[i].action_key]]]

\* ref_eq and ref_cmp: equality and order of addresses.
ref_eq(a, b) == a = b

RECURSIVE ref_cmp(_, _)
ref_cmp(a, b) ==
  IF a = <<>> THEN "Equal"
  ELSE IF Head(a) < Head(b) THEN "Less"
  ELSE IF Head(a) > Head(b) THEN "Greater"
  ELSE ref_cmp(Tail(a), Tail(b))

\* ParentRef: eq and cmp assert that both sides are the same instance.
ParentRefEq(a, b) == IF ref_eq(a, b) THEN "true" ELSE "panic"
\* cmp of the parent without the assertion: the order of the addresses.
ParentRefCmpNoAssert(a, b) ==
  IF a < b THEN "Less" ELSE IF a > b THEN "Greater" ELSE "Equal"
ParentRefCmp(a, b) == IF ref_eq(a, b) THEN "Equal" ELSE "panic"
\* ParentRef::partial_cmp is Some(self.cmp(other)).
ParentRefPartialCmp(a, b) == ParentRefCmp(a, b)

\* RefCompare: eq and cmp of the addresses.
RefCompareEq(a, b) == IF ref_eq(a, b) THEN "true" ELSE "false"
RefCompareCmp(a, b) == ref_cmp(a, b)

\* NoCompare: every two values are equal.
NoCompareEq(a, b) == "true"
NoCompareCmp(a, b) == "Equal"

\* The derived order of the values a head or a production list is made of.
IntCmp(a, b) == IF a < b THEN "Less" ELSE IF a > b THEN "Greater" ELSE "Equal"
Then(c, d) == IF c = "Equal" THEN d ELSE c
SymRank(v) == IF v \in NonTerms THEN Rank(v) ELSE 0
ElementCmp(a, b) ==
  Then(IntCmp(IF a.tag = "Term" THEN 0 ELSE 1, IF b.tag = "Term" THEN 0 ELSE 1),
       IntCmp(SymRank(a.val), SymRank(b.val)))
ProductionElementCmp(a, b) ==
  Then(IntCmp(IF a.identifier = None THEN 0 ELSE 1,
              IF b.identifier = None THEN 0 ELSE 1),
       ElementCmp(a.element, b.element))

RECURSIVE ElementsCmp(_, _)
ElementsCmp(a, b) ==
  IF a = <<>> /\ b = <<>> THEN "Equal"
  ELSE IF a = <<>> THEN "Less"
  ELSE IF b = <<>> THEN "Greater"
  ELSE Then(ProductionElementCmp(Head(a), Head(b)), ElementsCmp(Tail(a), Tail(b)))

ProductionCmp(a, b) ==
  Then(IntCmp(a.action_key, b.action_key), ElementsCmp(a.elements, b.elements))

RECURSIVE ProdsCmp(_, _)
ProdsCmp(a, b) ==
  IF a = <<>> /\ b = <<>> THEN "Equal"
  ELSE IF a = <<>> THEN "Less"
  ELSE IF b = <<>> THEN "Greater"
  ELSE Then(ProductionCmp(Head(a), Head(b)), ProdsCmp(Tail(a), Tail(b)))

\* The fields of the two views in declaration order: the derived
\* implementations compare them in this order.
RuleRefFields == <<"grammar", "head", "prods">>
ProdRefFields == <<"grammar", "head", "prod", "action_value">>

\* == on one field.
FieldEq(f, a, b) ==
  CASE f = "grammar" -> ParentRefEq(a.grammar, b.grammar)
    [] f = "head" -> IF a.head = b.head THEN "true" ELSE "false"
    [] f = "prods" -> IF a.prods = b.prods THEN "true" ELSE "false"
    [] f = "prod" -> RefCompareEq(a.prod, b.prod)
    [] f = "action_value" -> NoCompareEq(a.action_value, b.action_value)

\* cmp or partial_cmp on one field; but for the parent, partial_cmp is Some of
\* cmp for every field type here.
FieldCmp(op, f, a, b) ==
  CASE f = "grammar" -> IF op = "partial_cmp"
                        THEN ParentRefPartialCmp(a.grammar, b.grammar)
                        ELSE ParentRefCmp(a.grammar, b.grammar)
    [] f = "head" -> IntCmp(Rank(a.head), Rank(b.head))
    [] f = "prods" -> ProdsCmp(a.prods, b.prods)
    [] f = "prod" -> RefCompareCmp(a.prod, b.prod)
    [] f = "action_value" -> NoCompareCmp(a.action_value, b.action_value)

\* #[derive(PartialEq)]: the fields in order, joined by &&.
RECURSIVE derived_eq(_, _, _, _)
derived_eq(fields, a, b, compared) ==
  LET f == Head(fields)
      r == FieldEq(f, a, b)
  IN IF r = "true" /\ Len(fields) > 1
     THEN derived_eq(Tail(fields), a, b, Append(compared, f))
     ELSE [out |-> r, compared |-> Append(compared, f)]

\* #[derive(PartialOrd, Ord)]: the fields in order, the first that is not
\* Equal decides.
RECURSIVE derived_cmp(_, _, _, _, _)
derived_cmp(op, fields, a, b, compared) ==
  LET f == Head(fields)
      r == FieldCmp(op, f, a, b)
  IN IF r = "Equal" /\ Len(fields) > 1
     THEN derived_cmp(op, Tail(fields), a, b, Append(compared, f))
     ELSE [out |-> r, compared |-> Append(compared, f)]

CmpOps == {"eq", "partial_cmp", "cmp"}

\* One comparison of two views of the same kind.
Compare(op, fields, a, b) ==
  IF op = "eq" THEN derived_eq(fields, a, b, <<>>)
  ELSE derived_cmp(op, fields, a, b, <<>>)

(***************************************************************************)
(* The nullable engine (nullables.rs).                                     *)
(***************************************************************************)
\* The production a ProdRef points to.
Deref(g, pr) == g.rule_set[pr.head].prods[pr.prod[3]]

\* Grammar::prods: the views of every production of every rule of the
\* grammar, which lives at address 1.
Prods(g) ==
  UNION {LET r == RuleRefProds(g, RuleRef(1, g, h))
         IN {r.views[i] : i \in DOMAIN r.views} : h \in DOMAIN g.rule_set}

\* The same views in the order of the rule set and of each rule's list.
RECURSIVE ProdList(_, _)
ProdList(g, hs) ==
  IF hs = <<>> THEN <<>>
  ELSE RuleRefProds(g, RuleRef(1, g, Head(hs))).views \o ProdList(g, Tail(hs))

\* ProdRef::prod_key
prod_key(g, pr) == ProdKey(pr.head, Deref(g, pr).action_key)

\* is_prod_nullable that passes over terminals instead of returning false.
is_prod_nullable_skip_terms(nullables, g, pr) ==
  \A i \in DOMAIN Deref(g, pr).elements :
    LET elem == Deref(g, pr).elements[i].element
    IN elem.tag = "NonTerm" => elem.val \in DOMAIN nullables

\* is_prod_nullable: no element is a terminal or a nonterminal that is not a
\* key of the map.
is_prod_nullable(nullables, g, pr) ==
  \A i \in DOMAIN Deref(g, pr).elements :
    LET elem == Deref(g, pr).elements[i].element
    IN /\ elem.tag = "NonTerm"
       /\ elem.val \in DOMAIN nullables

\* The loop body that sets changed for every nullable production, whether
\* the insert into nullable_actions added it or found it there.
pass1_visit_ignore_insert(g, st, pr) ==
  IF is_prod_nullable(st.nts, g, pr)
  THEN LET old == IF pr.head \in DOMAIN st.nts THEN st.nts[pr.head] ELSE {}
       IN [nts |-> Insert(st.nts, pr.head, old \cup {pr}),
           changed |-> TRUE]
  ELSE st

\* The body of the for loop of inner_calculate_nullables for one production:
\* st holds nullable_nts (nts) and the changed flag.
pass1_visit(g, st, pr) ==
  IF is_prod_nullable(st.nts, g, pr)
  THEN LET old == IF pr.head \in DOMAIN st.nts THEN st.nts[pr.head] ELSE {}
       IN [nts |-> Insert(st.nts, pr.head, old \cup {pr}),
           changed |-> st.changed \/ pr \notin old]
  ELSE st

\* get_only: the one value of a collection; anything else panics.
get_only(S) ==
  IF Cardinality(S) = 1
  THEN [panicked |-> FALSE, value |-> CHOOSE x \in S : TRUE]
  ELSE [panicked |-> TRUE, value |-> None]

\* The sanity check with the ambiguity test off by one (> 2).
RECURSIVE sanity_check_off_by_one(_, _)
sanity_check_off_by_one(inner_info, hs) ==
  IF hs = <<>> THEN "Ok"
  ELSE LET actions_length == Cardinality(inner_info[Head(hs)])
       IN IF actions_length = 0 THEN "Panic"
          ELSE IF actions_length > 2 THEN "NullableAmbiguity"
          ELSE sanity_check_off_by_one(inner_info, Tail(hs))

\* The sanity check of calculate_nullables over the entries listed in hs: an
\* empty set panics, a set of more than one production is the ambiguity.
RECURSIVE sanity_check(_, _)
sanity_check(inner_info, hs) ==
  IF hs = <<>> THEN "Ok"
  ELSE LET actions_length == Cardinality(inner_info[Head(hs)])
       IN IF actions_length = 0 THEN "Panic"
          ELSE IF actions_length > 1 THEN "NullableAmbiguity"
          ELSE sanity_check(inner_info, Tail(hs))

\* The keys of a map over nonterminals in iteration order.
KeyList(map) ==
  LET IsKey(nt) == nt \in DOMAIN map
  IN SelectSeq(NonTermOrder, IsKey)

\* TreeNode::new(action, fields)
TreeNode(action, fields) == [action |-> action, fields |-> fields]

\* The field loop with a plain continue where the code has continue 'outer:
\* a child without a witness yet is left out and the node is built anyway.
RECURSIVE tree_fields_continue_inner(_, _, _)
tree_fields_continue_inner(elems, infos, fields) ==
  IF elems = <<>> THEN [skip |-> FALSE, fields |-> fields]
  ELSE LET prod_elem == Head(elems)
       IN IF /\ prod_elem.identifier # None
             /\ prod_elem.element.tag = "NonTerm"
             /\ prod_elem.element.val \in DOMAIN infos
          THEN tree_fields_continue_inner(Tail(elems), infos,
                 Insert(fields, prod_elem.identifier,
                        infos[prod_elem.element.val].nullable_action))
          ELSE tree_fields_continue_inner(Tail(elems), infos, fields)

\* The field loop that keeps the first child stored under a name (an
\* entry().or_insert in place of insert).
RECURSIVE tree_fields_keep_first(_, _, _)
tree_fields_keep_first(elems, infos, fields) ==
  IF elems = <<>> THEN [skip |-> FALSE, fields |-> fields]
  ELSE LET prod_elem == Head(elems)
       IN IF prod_elem.identifier # None /\ prod_elem.element.tag = "NonTerm"
          THEN IF prod_elem.element.val \notin DOMAIN infos
               THEN [skip |-> TRUE, fields |-> fields]
               ELSE tree_fields_keep_first(Tail(elems), infos,
                      IF prod_elem.identifier \in DOMAIN fields THEN fields
                      ELSE Insert(fields, prod_elem.identifier,
                                  infos[prod_elem.element.val].nullable_action))
          ELSE tree_fields_keep_first(Tail(elems), infos, fields)

\* The loop over prod_elements() that fills nullable_tree_fields: a named
\* nonterminal without a witness yet abandons the nonterminal being built
\* (continue 'outer); with one, its witness is inserted under the name.
RECURSIVE tree_fields(_, _, _)
tree_fields(elems, infos, fields) ==
  IF elems = <<>> THEN [skip |-> FALSE, fields |-> fields]
  ELSE LET prod_elem == Head(elems)
       IN IF prod_elem.identifier # None /\ prod_elem.element.tag = "NonTerm"
          THEN IF prod_elem.element.val \notin DOMAIN infos
               THEN [skip |-> TRUE, fields |-> fields]
               ELSE tree_fields(Tail(elems), infos,
                      Insert(fields, prod_elem.identifier,
                             infos[prod_elem.element.val].nullable_action))
          ELSE tree_fields(Tail(elems), infos, fields)

\* The body of the 'outer loop for one remaining nonterminal: pr is its
\* entry of nullable_action_map.
pass2_visit(g, pr, infos, null_nt) ==
  LET r == tree_fields(Deref(g, pr).elements, infos, EmptyMap)
  IN IF r.skip THEN infos
     ELSE Insert(infos, null_nt,
                 [nullable_action |-> TreeNode(prod_key(g, pr), r.fields)])

\* What calculate_nullables returns.
NullableOk(infos) == [tag |-> "Ok", nonterm_info |-> infos]
NullableErr == [tag |-> "Err", error |-> "NullableAmbiguity"]
NullablePanic == [tag |-> "Panic"]

\* calculate_nullables run in the iteration order of the rule set, as one
\* function of the grammar.
RECURSIVE pass1_sweep(_, _, _)
pass1_sweep(g, ps, st) ==
  IF ps = <<>> THEN st
  ELSE pass1_sweep(g, Tail(ps), pass1_visit(g, st, Head(ps)))

RECURSIVE inner_calculate_nullables(_, _)
inner_calculate_nullables(g, nts) ==
  LET st == pass1_sweep(g, ProdList(g, RuleHeads(g)),
                        [nts |-> nts, changed |-> FALSE])
  IN IF st.changed THEN inner_calculate_nullables(g, st.nts) ELSE st.nts

RECURSIVE pass2_sweep(_, _, _, _)
pass2_sweep(g, inner_info, nts, infos) ==
  IF nts = <<>> THEN infos
  ELSE pass2_sweep(g, inner_info, Tail(nts),
         pass2_visit(g, get_only(inner_info[Head(nts)]).value, infos, Head(nts)))

RECURSIVE pass2_loop(_, _, _, _)
pass2_loop(g, inner_info, rem, infos) ==
  LET IsRemaining(nt) == nt \in rem
      after == pass2_sweep(g, inner_info,
                           SelectSeq(NonTermOrder, IsRemaining), infos)
      left == rem \ DOMAIN after
  IN IF left = {} THEN after ELSE pass2_loop(g, inner_info, left, after)

calculate_nullables(g) ==
  LET inner_info == inner_calculate_nullables(g, EmptyMap)
      checked == sanity_check(inner_info, KeyList(inner_info))
  IN IF checked = "Panic" THEN NullablePanic
     ELSE IF checked = "NullableAmbiguity" THEN NullableErr
     ELSE IF \E nt \in DOMAIN inner_info : get_only(inner_info[nt]).panicked
     THEN NullablePanic
     ELSE NullableOk(pass2_loop(g, inner_info, DOMAIN inner_info, EmptyMap))

(***************************************************************************)
(* The caller assembles the rules with Rule::new, Production::new and      *)
(* ProductionElement::new, then calls Grammar::new.                        *)
(***************************************************************************)
RECURSIVE Sum(_, _)
Sum(f, S) ==
  IF S = {} THEN 0 ELSE LET x == CHOOSE y \in S : TRUE IN f[x] + Sum(f, S \ {x})

\* Productions plus right-hand-side elements of a rule collection.
ProdSize(rs) ==
  Sum([i \in DOMAIN rs |->
         Len(rs[i].prods) +
         Sum([j \in DOMAIN rs[i].prods |-> Len(rs[i].prods[j].elements)],
             DOMAIN rs[i].prods)],
      DOMAIN rs)

\* Rules plus productions plus right-hand-side elements.
InputSize(rs) == Len(rs) + ProdSize(rs)

NoCall == [op |-> "none"]

inputs == <<start, rules, action_map>>
engine == <<nullable_nts, changed, todo, sweeps, remaining, nullable_infos,
            outcome>>

\* Rule::new(head, vec![]) pushed onto the collection.
AddRule(h) ==
  /\ pc = "build"
  /\ rules' = Append(rules, Rule(h, <<>>))
  /\ UNCHANGED <<start, action_map, pc, result, ret, engine>>

\* Production::new(key, vec![]) pushed onto the last rule.
AddProd(k) ==
  /\ pc = "build"
  /\ rules # <<>>
  /\ rules' = [rules EXCEPT ![Len(rules)].prods = Append(@, Production(k, <<>>))]
  /\ UNCHANGED <<start, action_map, pc, result, ret, engine>>

\* ProductionElement::new(name, elem) pushed onto the last production.
AddElem(e) ==
  /\ pc = "build"
  /\ rules # <<>>
  /\ rules[Len(rules)].prods # <<>>
  /\ rules' = [rules EXCEPT
                 ![Len(rules)].prods[Len(rules[Len(rules)].prods)].elements =
                   Append(@, e)]
  /\ UNCHANGED <<start, action_map, pc, result, ret, engine>>

\* The call of Grammar::new on what was assembled.
CallGrammarNew ==
  /\ pc = "build"
  /\ result' = GrammarNew(start, rules, action_map)
  /\ pc' = "built"
  /\ UNCHANGED <<inputs, ret, engine>>

\* Before anything is assembled.
InitCommon ==
  /\ start = "S"
  /\ rules = <<>>
  /\ pc = "build"
  /\ result = [tag |-> "None"]
  /\ ret = NoCall
  /\ nullable_nts = EmptyMap
  /\ changed = FALSE
  /\ todo = {}
  /\ sweeps = 0
  /\ remaining = {}
  /\ nullable_infos = EmptyMap
  /\ outcome = [tag |-> "None"]

\* The grammar Grammar::new returned.
Built == pc # "build" /\ result.tag = "Ok"
G == result.grammar

(***************************************************************************)
(* Calls on the grammar Grammar::new returned.                             *)
(***************************************************************************)
CallGetActionMap ==
  /\ pc = "built"
  /\ Built
  /\ ret' = [op |-> "get_action_map",
             panicked |-> get_action_map(G).panicked,
             value |-> get_action_map(G).map]
  /\ UNCHANGED <<inputs, pc, result, engine>>

CallRuleRefProds(h) ==
  /\ pc = "built"
  /\ Built
  /\ h \in DOMAIN G.rule_set
  /\ ret' = [op |-> "prods",
             head |-> h,
             panicked |-> RuleRefProds(G, RuleRef(1, G, h)).panicked,
             value |-> RuleRefProds(G, RuleRef(1, G, h)).views]
  /\ UNCHANGED <<inputs, pc, result, engine>>

\* The grammar lives at address 1 and its clone (Grammar derives Clone) at
\* address 2; the views of both.
Instances == {1, 2}
RuleRefs ==
  IF Built
  THEN {RuleRef(inst, G, h) : inst \in Instances, h \in DOMAIN G.rule_set}
  ELSE {}
ProdRefs ==
  UNION {LET r == RuleRefProds(G, rr)
         IN {r.views[i] : i \in DOMAIN r.views} : rr \in RuleRefs}

CompareRuleRefs(op, a, b) ==
  /\ pc = "built"
  /\ Built
  /\ ret' = [op |-> op, kind |-> "RuleRef", a |-> a, b |-> b,
             cmp |-> Compare(op, RuleRefFields, a, b)]
  /\ UNCHANGED <<inputs, pc, result, engine>>

CompareProdRefs(op, a, b) ==
  /\ pc = "built"
  /\ Built
  /\ ret' = [op |-> op, kind |-> "ProdRef", a |-> a, b |-> b,
             cmp |-> Compare(op, ProdRefFields, a, b)]
  /\ UNCHANGED <<inputs, pc, result, engine>>

(***************************************************************************)
(* calculate_nullables on the grammar, one loop iteration per step.  The   *)
(* order in which a sweep visits the productions (pass 1) or the remaining *)
(* nonterminals (pass 2) is left open.                                     *)
(***************************************************************************)
StartNullables ==
  /\ pc = "built"
  /\ Built
  /\ pc' = "pass1"
  /\ nullable_nts' = EmptyMap
  /\ changed' = FALSE
  /\ todo' = Prods(G)
  /\ sweeps' = 1
  /\ UNCHANGED <<inputs, result, ret, remaining, nullable_infos, outcome>>

Pass1Visit(pr) ==
  /\ pc = "pass1"
  /\ pr \in todo
  /\ LET st == pass1_visit(G, [nts |-> nullable_nts, changed |-> changed], pr)
     IN /\ nullable_nts' = st.nts
        /\ changed' = st.changed
  /\ todo' = todo \ {pr}
  /\ UNCHANGED <<inputs, pc, result, ret, sweeps, remaining, nullable_infos,
                 outcome>>

\* The end of a sweep: another one if something changed, else the return.
Pass1EndSweep ==
  /\ pc = "pass1"
  /\ todo = {}
  /\ IF changed
     THEN /\ changed' = FALSE
          /\ todo' = Prods(G)
          /\ sweeps' = sweeps + 1
          /\ pc' = pc
     ELSE /\ pc' = "check"
          /\ UNCHANGED <<changed, todo, sweeps>>
  /\ UNCHANGED <<inputs, result, ret, nullable_nts, remaining, nullable_infos,
                 outcome>>

\* The sanity check, nullable_action_map and the set-up of pass 2.
SanityCheck ==
  /\ pc = "check"
  /\ LET checked == sanity_check(nullable_nts, KeyList(nullable_nts))
     IN IF checked = "NullableAmbiguity"
        THEN /\ outcome' = NullableErr
             /\ pc' = "done"
             /\ UNCHANGED <<remaining, todo>>
        ELSE IF \/ checked = "Panic"
                \/ \E nt \in DOMAIN nullable_nts :
                      get_only(nullable_nts[nt]).panicked
        THEN /\ outcome' = NullablePanic
             /\ pc' = "done"
             /\ UNCHANGED <<remaining, todo>>
        ELSE /\ remaining' = DOMAIN nullable_nts
             /\ todo' = DOMAIN nullable_nts
             /\ pc' = "pass2"
             /\ UNCHANGED outcome
  /\ UNCHANGED <<inputs, result, ret, nullable_nts, changed, sweeps,
                 nullable_infos>>

Pass2Visit(null_nt) ==
  /\ pc = "pass2"
  /\ null_nt \in todo
  /\ nullable_infos' =
       pass2_visit(G, get_only(nullable_nts[null_nt]).value, nullable_infos,
                   null_nt)
  /\ todo' = todo \ {null_nt}
  /\ UNCHANGED <<inputs, pc, result, ret, nullable_nts, changed, sweeps,
                 remaining, outcome>>

\* The end of a sweep of pass 2: what has a witness leaves remaining_nullables.
Pass2EndSweep ==
  /\ pc = "pass2"
  /\ todo = {}
  /\ remaining' = remaining \ DOMAIN nullable_infos
  /\ IF remaining' = {}
     THEN /\ outcome' = NullableOk(nullable_infos)
          /\ pc' = "done"
          /\ todo' = todo
     ELSE /\ todo' = remaining'
          /\ UNCHANGED <<pc, outcome>>
  /\ UNCHANGED <<inputs, result, ret, nullable_nts, changed, sweeps,
                 nullable_infos>>

(***************************************************************************)
(* Validation runs: any rule collection of size at most MaxSize, unnamed   *)
(* elements, an action map with every key or with key 1 alone.             *)
(***************************************************************************)
Init == InitCommon /\ action_map \in {Keys, {1}}

Next ==
  \/ /\ InputSize(rules) < MaxSize
     /\ \E h \in NonTerms : AddRule(h)
  \/ /\ InputSize(rules) < MaxSize
     /\ \E k \in Keys : AddProd(k)
  \/ /\ InputSize(rules) < MaxSize
     /\ \E e \in ProductionElement({None}) : AddElem(e)
  \/ CallGrammarNew
  \/ CallGetActionMap
  \/ \E h \in NonTerms : CallRuleRefProds(h)

Spec == Init /\ [][Next]_vars

(***************************************************************************)
(* Comparison runs: the same inputs up to size CmpSize with an entry for   *)
(* every key in the action map, then comparisons of the views of the       *)
(* grammar and of its clone.                                               *)
(***************************************************************************)
NextCmp ==
  \/ /\ InputSize(rules) < CmpSize
     /\ \E h \in NonTerms : AddRule(h)
  \/ /\ InputSize(rules) < CmpSize
     /\ \E k \in Keys : AddProd(k)
  \/ /\ InputSize(rules) < CmpSize
     /\ \E e \in ProductionElement({None}) : AddElem(e)
  \/ CallGrammarNew
  \/ \E op \in CmpOps : \E a \in RuleRefs, b \in RuleRefs :
       CompareRuleRefs(op, a, b)
  \/ \E op \in CmpOps : \E a \in ProdRefs, b \in ProdRefs :
       CompareProdRefs(op, a, b)

InitCmp == InitCommon /\ action_map = Keys

SpecCmp == InitCmp /\ [][NextCmp]_vars

(***************************************************************************)
(* Nullable runs: the rules are supplied in the order of their heads, one  *)
(* rule per head, the productions of a rule keyed 1, 2, ... in order, up   *)
(* to NullSize productions and elements, named or not; the action map has  *)
(* an entry for every key.  Every grammar Grammar::new returns for inputs  *)
(* of that size is the result of such a collection.                        *)
(***************************************************************************)
NullKeys == 1..NullSize

InitNull == InitCommon /\ action_map = NullKeys

NextNull ==
  \/ \E h \in NonTerms :
       /\ IF rules = <<>> THEN TRUE
          ELSE /\ rules[Len(rules)].prods # <<>>
               /\ Rank(h) > Rank(rules[Len(rules)].head)
       /\ AddRule(h)
  \/ /\ ProdSize(rules) < NullSize
     /\ rules # <<>>
     /\ AddProd(Len(rules[Len(rules)].prods) + 1)
  \/ /\ ProdSize(rules) < NullSize
     /\ \E e \in ProductionElement(Names \cup {None}) : AddElem(e)
  \/ CallGrammarNew
  \/ StartNullables
  \/ \E pr \in todo : Pass1Visit(pr)
  \/ Pass1EndSweep
  \/ SanityCheck
  \/ \E nt \in todo : Pass2Visit(nt)
  \/ Pass2EndSweep

SpecNull == InitNull /\ [][NextNull]_vars

\* The steps of calculate_nullables once it was called.
EngineNext ==
  \/ \E pr \in todo : Pass1Visit(pr)
  \/ Pass1EndSweep
  \/ SanityCheck
  \/ \E nt \in todo : Pass2Visit(nt)
  \/ Pass2EndSweep

\* Halting runs: the nullable runs up to HaltSize productions and elements,
\* in which a call of calculate_nullables, which is sequential code, keeps
\* running until it returns.
NextHalt ==
  \/ \E h \in NonTerms :
       /\ IF rules = <<>> THEN TRUE
          ELSE /\ rules[Len(rules)].prods # <<>>
               /\ Rank(h) > Rank(rules[Len(rules)].head)
       /\ AddRule(h)
  \/ /\ ProdSize(rules) < HaltSize
     /\ rules # <<>>
     /\ AddProd(Len(rules[Len(rules)].prods) + 1)
  \/ /\ ProdSize(rules) < HaltSize
     /\ \E e \in ProductionElement(Names \cup {None}) : AddElem(e)
  \/ CallGrammarNew
  \/ StartNullables
  \/ EngineNext

SpecNullFair == InitNull /\ [][NextHalt]_vars /\ WF_vars(EngineNext)

(***************************************************************************)
(* Binding runs: the nullable runs with two binding names, the right-hand  *)
(* sides made of nonterminals, named or not, up to BindSize productions    *)
(* and elements.                                                           *)
(***************************************************************************)
BindNames == {"x", "y"}

BindElements ==
  {e \in ProductionElement(BindNames \cup {None}) : e.element.tag = "NonTerm"}

NextBind ==
  \/ \E h \in NonTerms :
       /\ IF rules = <<>> THEN TRUE
          ELSE /\ rules[Len(rules)].prods # <<>>
               /\ Rank(h) > Rank(rules[Len(rules)].head)
       /\ AddRule(h)
  \/ /\ ProdSize(rules) < BindSize
     /\ rules # <<>>
     /\ AddProd(Len(rules[Len(rules)].prods) + 1)
  \/ /\ ProdSize(rules) < BindSize
     /\ \E e \in BindElements : AddElem(e)
  \/ CallGrammarNew
  \/ StartNullables
  \/ EngineNext

SpecBind == InitNull /\ [][NextBind]_vars

(***************************************************************************)
(* What the properties below speak about, stated on the grammar itself.    *)
(***************************************************************************)
\* The rule set Grammar::new validates.
RuleSet == collect(rules, EmptyMap)

\* The nonterminals of the right-hand sides of nt's rule in rule set rs.
RhsNonTerms(rs, nt) ==
  IF nt \notin DOMAIN rs THEN {}
  ELSE UNION {{rs[nt].prods[i].elements[j].element.val :
                 j \in {k \in DOMAIN rs[nt].prods[i].elements :
                          rs[nt].prods[i].elements[k].element.tag = "NonTerm"}} :
              i \in DOMAIN rs[nt].prods}

\* The nonterminals that appear in the grammar: heads and right-hand sides.
Appearing(rs) == DOMAIN rs \cup UNION {RhsNonTerms(rs, nt) : nt \in DOMAIN rs}

\* The nonterminals reachable from st: the least set that holds st and the
\* right-hand-side nonterminals of each of its members.
Reachable(rs, st) ==
  {nt \in NonTerms :
     \A M \in SUBSET NonTerms :
       (st \in M /\ \A m \in M : RhsNonTerms(rs, m) \subseteq M) => nt \in M}

\* Production i of nt has a right-hand side made only of nonterminals in N.
NullableIn(rs, nt, i, N) ==
  \A j \in DOMAIN rs[nt].prods[i].elements :
    /\ rs[nt].prods[i].elements[j].element.tag = "NonTerm"
    /\ rs[nt].prods[i].elements[j].element.val \in N

\* N holds exactly the nonterminals with a production nullable in N.
IsNullableSet(rs, N) ==
  \A nt \in NonTerms :
    nt \in N <=> /\ nt \in DOMAIN rs
                 /\ \E i \in DOMAIN rs[nt].prods : NullableIn(rs, nt, i, N)

Done == pc = "done"
Table == outcome.nonterm_info

(***************************************************************************)
(* The properties.                                                         *)
(***************************************************************************)
\* C1: when calculate_nullables succeeds, the nonterminals of the returned
\* table are exactly the least set N such that a nonterminal is in N iff one
\* of its productions has a right-hand side made only of nonterminals in N.
C1_NullableSetIsLeast ==
  (Done /\ outcome.tag = "Ok") =>
    /\ IsNullableSet(G.rule_set, DOMAIN Table)
    /\ \A M \in SUBSET NonTerms :
         IsNullableSet(G.rule_set, M) => DOMAIN Table \subseteq M

\* A successful run on a grammar with a nullable nonterminal, one that is
\* not, and a right-hand side that refers to a nullable nonterminal.
C1_Witness ==
  /\ Done /\ outcome.tag = "Ok"
  /\ DOMAIN Table # {}
  /\ DOMAIN G.rule_set \ DOMAIN Table # {}
  /\ \E nt \in DOMAIN Table : RhsNonTerms(G.rule_set, nt) # {}

\* C2: calculate_nullables returns the NullableAmbiguity error, and no
\* table, exactly when at the fixpoint of pass 1 some nonterminal has two or
\* more productions recorded as nullable; otherwise it returns a table.
C2_AmbiguityExactly ==
  Done =>
    /\ \A nt \in DOMAIN G.rule_set : \A i \in DOMAIN G.rule_set[nt].prods :
         NullableIn(G.rule_set, nt, i, DOMAIN nullable_nts) =>
           /\ nt \in DOMAIN nullable_nts
           /\ \E pr \in nullable_nts[nt] : pr.prod[3] = i
    /\ outcome.tag = "Err" <=>
         \E nt \in DOMAIN nullable_nts : Cardinality(nullable_nts[nt]) >= 2
    /\ outcome.tag = "Err" => outcome = NullableErr
    /\ outcome.tag # "Err" => outcome.tag = "Ok"

\* A run that ends with the ambiguity error.
C2_Witness ==
  /\ Done /\ outcome.tag = "Err"
  /\ \E nt \in DOMAIN nullable_nts : Cardinality(nullable_nts[nt]) >= 2

\* C3: every grammar Grammar::new returns as Ok is well-formed: every
\* nonterminal of a right-hand side has a rule, and every rule has at least
\* one production.
C3_OkGrammarWellFormed ==
  Built =>
    /\ \A nt \in DOMAIN G.rule_set :
         RhsNonTerms(G.rule_set, nt) \subseteq DOMAIN G.rule_set
    /\ \A nt \in DOMAIN G.rule_set : Len(G.rule_set[nt].prods) >= 1

\* An Ok grammar of two rules, one referring to the other.
C3_Witness ==
  /\ Built
  /\ Cardinality(DOMAIN G.rule_set) >= 2
  /\ \E nt \in DOMAIN G.rule_set : RhsNonTerms(G.rule_set, nt) \ {nt} # {}

\* C4: when Grammar::new fails, the error value holds every defect of the
\* input: every nonterminal referenced without a rule, every rule head with
\* zero productions and every nonterminal that appears in the grammar and is
\* unreachable from the start nonterminal.
C4_AllDefectsReported ==
  (pc = "built" /\ result.tag = "Err") =>
    /\ result.errors.nonterms_without_rules =
         {nt \in Appearing(RuleSet) : nt \notin DOMAIN RuleSet}
    /\ result.errors.rules_without_prods =
         {nt \in DOMAIN RuleSet : RuleSet[nt].prods = <<>>}
    /\ result.errors.unreachable_nonterms =
         Appearing(RuleSet) \ Reachable(RuleSet, start)

\* C5: Grammar::new reports as unreachable every nonterminal that appears in
\* the grammar, as a rule head or in a right-hand side, and cannot be reached
\* from the start nonterminal; such a grammar is not returned as Ok.
C5_UnreachableReported ==
  pc = "built" =>
    \A nt \in Appearing(RuleSet) \ Reachable(RuleSet, start) :
      /\ result.tag = "Err"
      /\ nt \in result.errors.unreachable_nonterms

\* C6: the outcome of calculate_nullables (the error, or the table with every
\* witness tree) is the same whatever the order in which pass 1 visits the
\* productions and pass 2 the remaining nonterminals: every run ends with
\* the outcome of the run in the iteration order of the rule set.
C6_OrderIndependent == Done => outcome = calculate_nullables(G)

\* A successful run of more than one sweep of pass 1 whose table holds a
\* witness with a child.
C6_Witness ==
  /\ Done /\ outcome.tag = "Ok"
  /\ sweeps >= 3
  /\ \E nt \in DOMAIN Table : DOMAIN Table[nt].nullable_action.fields # {}

\* C7: in every grammar Grammar::new returns as Ok, no two productions have
\* the same head and the same action key, and get_action_map never reaches
\* its duplicate-key panic.
C7_ProdKeyUnique ==
  Built =>
    /\ \A nt \in DOMAIN G.rule_set :
         \A i \in DOMAIN G.rule_set[nt].prods, j \in DOMAIN G.rule_set[nt].prods :
           G.rule_set[nt].prods[i].action_key = G.rule_set[nt].prods[j].action_key
             => i = j
    /\ ret.op = "get_action_map" => ~ret.panicked

\* C8: a comparison (==, partial_cmp, cmp) of two views whose grammars are
\* different instances yields no result: the parent assertion fails, and it
\* fails before any other field is compared.
C8_CrossGrammarComparePanics ==
  (ret.op \in CmpOps /\ ret.a.grammar # ret.b.grammar) =>
    /\ ret.cmp.out = "panic"
    /\ ret.cmp.compared = <<"grammar">>

\* An ordering of two production views of the grammar and of its clone that
\* point to the same production of the same rule.
C8_Witness ==
  /\ ret.op = "cmp"
  /\ ret.kind = "ProdRef"
  /\ ret.a.grammar # ret.b.grammar
  /\ ret.a.head = ret.b.head
  /\ ret.a.prod[3] = ret.b.prod[3]

\* The rule collection rs in the order given by the permutation f.
Permuted(rs, f) == [i \in DOMAIN rs |-> rs[f[i]]]
Orders(n) ==
  {f \in [1..n -> 1..n] : \A i \in 1..n, j \in 1..n : f[i] = f[j] => i = j}

\* C9: the result of Grammar::new does not depend on the order in which the
\* rules are supplied, for every collection of rules, two rules with the same
\* head included.
C9_RuleOrderIrrelevant ==
  pc = "built" =>
    \A f \in Orders(Len(rules)) :
      GrammarNew(start, Permuted(rules, f), action_map) = result

\* The named nonterminal elements of a right-hand side.
NamedNonTerms(elems) ==
  {j \in DOMAIN elems :
     elems[j].identifier # None /\ elems[j].element.tag = "NonTerm"}

\* The one production of nt that is nullable in the table's nonterminals.
OnlyNullable(nt) ==
  CHOOSE i \in DOMAIN G.rule_set[nt].prods :
    NullableIn(G.rule_set, nt, i, DOMAIN Table)

\* C10 as stated: the witness of a nullable X is labelled with the ProdKey
\* (X, action key) of X's single nullable production and has one child for
\* each named nonterminal element of it, stored under the element's name and
\* equal to the table's witness of the element's nonterminal; nothing else
\* is a child.
C10_ChildPerNamedElement ==
  (Done /\ outcome.tag = "Ok") =>
    \A nt \in DOMAIN Table :
      LET prod == G.rule_set[nt].prods[OnlyNullable(nt)]
          tree == Table[nt].nullable_action
      IN /\ tree.action = ProdKey(nt, prod.action_key)
         /\ DOMAIN tree.fields =
              {prod.elements[j].identifier : j \in NamedNonTerms(prod.elements)}
         /\ \A j \in NamedNonTerms(prod.elements) :
              tree.fields[prod.elements[j].identifier] =
                Table[prod.elements[j].element.val].nullable_action

\* C10 as amended: the same label; one child for each binding name borne by
\* a named nonterminal element, equal to the table's witness of the
\* nonterminal of the last element with that name; nothing else is a child.
C10_ChildPerBindingName ==
  (Done /\ outcome.tag = "Ok") =>
    \A nt \in DOMAIN Table :
      LET prod == G.rule_set[nt].prods[OnlyNullable(nt)]
          tree == Table[nt].nullable_action
          named == NamedNonTerms(prod.elements)
      IN /\ \A i \in DOMAIN G.rule_set[nt].prods :
              NullableIn(G.rule_set, nt, i, DOMAIN Table) => i = OnlyNullable(nt)
         /\ tree.action = ProdKey(nt, prod.action_key)
         /\ DOMAIN tree.fields = {prod.elements[j].identifier : j \in named}
         /\ \A j \in named :
              (\A k \in named :
                 prod.elements[k].identifier = prod.elements[j].identifier
                   => k <= j)
              => tree.fields[prod.elements[j].identifier] =
                   Table[prod.elements[j].element.val].nullable_action

\* A table with the witness of a production that has a named and an unnamed
\* nonterminal element.
C10_Witness ==
  /\ Done /\ outcome.tag = "Ok"
  /\ \E nt \in DOMAIN Table :
       LET prod == G.rule_set[nt].prods[OnlyNullable(nt)]
       IN /\ NamedNonTerms(prod.elements) # {}
          /\ \E j \in DOMAIN prod.elements :
               /\ prod.elements[j].identifier = None
               /\ prod.elements[j].element.tag = "NonTerm"

\* The number of productions pass 1 has recorded as nullable.
Recorded == Cardinality(UNION {nullable_nts[nt] : nt \in DOMAIN nullable_nts})

\* Each sweep of pass 1 but the last has recorded a production, and there
\* are at most as many sweeps as productions, plus one.
Pass1Bounded ==
  pc = "pass1" =>
    /\ Recorded >= sweeps - 1
    /\ sweeps <= Cardinality(Prods(G)) + 1

\* The sets pass 1 records never shrink.
Pass1Grows ==
  pc = "pass1" =>
    \A nt \in DOMAIN nullable_nts :
      /\ nt \in DOMAIN nullable_nts'
      /\ nullable_nts[nt] \subseteq nullable_nts'[nt]

\* A sweep of pass 2 over a nonempty remaining set has built a witness for
\* one of its members.
Pass2Progress ==
  (pc = "pass2" /\ todo = {} /\ remaining # {}) =>
    remaining \cap DOMAIN nullable_infos # {}

\* C11: calculate_nullables halts on every grammar Grammar::new accepts:
\* pass 1 makes at most (number of productions + 1) sweeps, each but the
\* last recording a new production in sets that never shrink, each sweep of
\* pass 2 builds a new witness, and every call returns.
C11_Halts ==
  /\ []Pass1Bounded
  /\ [][Pass1Grows]_vars
  /\ []Pass2Progress
  /\ [](pc = "pass1" => <>Done)

\* A call that returned a table after as many sweeps of pass 1 as there are
\* productions, plus one, the productions being at least two.
C11_Witness ==
  /\ Done /\ outcome.tag = "Ok"
  /\ sweeps >= 3
  /\ sweeps = Cardinality(Prods(G)) + 1

\* C12: in every grammar Grammar::new returns as Ok the start nonterminal has
\* a rule in the rule set, whether or not a production refers to it.
C12_StartHasRule == Built => G.start_symbol \in DOMAIN G.rule_set

\* C13: in every grammar Grammar::new returns as Ok the action key of every
\* production has an entry in the action map, and RuleRef::prods never fails
\* on the lookup of an action value.
C13_ActionKeysMapped ==
  Built =>
    /\ \A nt \in DOMAIN G.rule_set :
         \A i \in DOMAIN G.rule_set[nt].prods :
           G.rule_set[nt].prods[i].action_key \in G.action_map
    /\ ret.op = "prods" => ~ret.panicked

\* The last named nonterminal element of a right-hand side that bears the
\* binding name id.
LastNamed(elems, id) ==
  CHOOSE j \in NamedNonTerms(elems) :
    /\ elems[j].identifier = id
    /\ \A k \in NamedNonTerms(elems) : elems[k].identifier = id => k <= j

\* C14: when the nullable production of a nonterminal has two or more named
\* nonterminal elements with one binding name, its witness has a single
\* child under that name, the witness of the last of these elements, and as
\* many children as there are distinct binding names on its nonterminal
\* elements.
C14_LastBindingWins ==
  (Done /\ outcome.tag = "Ok") =>
    \A nt \in DOMAIN Table :
      LET elems == G.rule_set[nt].prods[OnlyNullable(nt)].elements
          fields == Table[nt].nullable_action.fields
          named == NamedNonTerms(elems)
      IN (\E j \in named, k \in named :
            j # k /\ elems[j].identifier = elems[k].identifier)
         => /\ Cardinality(DOMAIN fields) =
                 Cardinality({elems[j].identifier : j \in named})
            /\ \A j \in named :
                 /\ elems[j].identifier \in DOMAIN fields
                 /\ fields[elems[j].identifier] =
                      Table[elems[LastNamed(elems, elems[j].identifier)]
                              .element.val].nullable_action

\* A table with the witness of a production in which one binding name is
\* borne by two elements whose nonterminals differ, and which has a single
\* child.
C14_Witness ==
  /\ Done /\ outcome.tag = "Ok"
  /\ \E nt \in DOMAIN Table :
       LET elems == G.rule_set[nt].prods[OnlyNullable(nt)].elements
           named == NamedNonTerms(elems)
       IN /\ \E j \in named, k \in named :
               /\ j # k
               /\ elems[j].identifier = elems[k].identifier
               /\ elems[j].element.val # elems[k].element.val
          /\ Cardinality(DOMAIN Table[nt].nullable_action.fields) = 1

====
